---- MODULE Spec2Model ----
(***************************************************************************)
(* BeamsBackground (src/src/components/ui/beams-background.tsx): the       *)
(* canvas animation component, its two effects, the listeners they         *)
(* register on window, the requestAnimationFrame loop and the beam and     *)
(* particle collections.                                                   *)
(*                                                                         *)
(* Numbers are fixed point: a JavaScript number v is held as the integer   *)
(* v * Milli (lengths in 1/1000 px, hues in 1/1000 degree, speeds in       *)
(* 1/1000 px per frame).  Divisions that are not exact are floored.        *)
(* Math.random() is the deterministic generator it is in the engine: a     *)
(* cyclic stream of samples (RandTable) read at position rng, whose start  *)
(* is unknown (drawn in Init).                                             *)
(***************************************************************************)
EXTENDS Integers, Sequences, FiniteSets, TLC

\* ------------------------------------------------------------------ bounds

\* Environment events (prop changes, resizes, pointer moves, clicks).
MaxEvents == 2
\* Frame callbacks run by the browser in Spec.
MaxFrames == 1
\* Frame callbacks run by the browser in LiveSpec.
LiveMaxFrames == 4500

\* ------------------------------------------------------- number encoding

Milli == 1000

RandTable == <<0, 750, 250, 500, 999, 125, 875, 375, 625, 50, 950>>

RandLen == Len(RandTable)

\* The sample (r * Milli, 0 <= r < 1) returned by the j-th call of
\* Math.random() after stream position s.
Random(s, j) == RandTable[((s + j) % RandLen) + 1]

\* The stream positions Math.random() may start from.
Seeds == {0, 1}

\* ------------------------------------------------------- configuration

colorSchemes ==
    [ blue   |-> [baseHue |-> 190, hueRange |-> 70, saturation |-> 85, lightness |-> 65],
      purple |-> [baseHue |-> 270, hueRange |-> 60, saturation |-> 80, lightness |-> 60],
      green  |-> [baseHue |-> 120, hueRange |-> 50, saturation |-> 75, lightness |-> 55],
      orange |-> [baseHue |-> 30,  hueRange |-> 40, saturation |-> 90, lightness |-> 60],
      pink   |-> [baseHue |-> 320, hueRange |-> 50, saturation |-> 85, lightness |-> 65],
      cyan   |-> [baseHue |-> 180, hueRange |-> 40, saturation |-> 80, lightness |-> 70],
      red    |-> [baseHue |-> 0,   hueRange |-> 30, saturation |-> 85, lightness |-> 55],
      yellow |-> [baseHue |-> 60,  hueRange |-> 30, saturation |-> 90, lightness |-> 65],
      custom |-> [baseHue |-> 190, hueRange |-> 70, saturation |-> 85, lightness |-> 65] ]

\* An optional number (customHue?: number) is the empty set when undefined
\* and the singleton of its value otherwise.
Undefined == {}

\* JavaScript truthiness of an optional number: defined and not 0.
Truthy(opt) == opt # {} /\ opt # {0}

ValueOf(opt) == CHOOSE v \in opt : TRUE

\* The colour props (colorScheme, customHue) the host passes.
ColorConfigs ==
    { [colorScheme |-> "purple", customHue |-> {300}],
      [colorScheme |-> "blue",   customHue |-> Undefined],
      [colorScheme |-> "custom", customHue |-> {300}],
      [colorScheme |-> "custom", customHue |-> {0}] }

\* The props of the first render: those App passes (src/unnamed/part_000),
\* and the component's defaults.
InitProps ==
    { [intensity |-> "strong", interactive |-> FALSE, colorScheme |-> "purple", customHue |-> {300}],
      [intensity |-> "strong", interactive |-> TRUE,  colorScheme |-> "blue",   customHue |-> Undefined] }

\* The props a later render may pass instead of p, intensity aside: the
\* interactive flag flipped, or other colour props.
PropChanges(p) ==
    { [p EXCEPT !.interactive = ~p.interactive] }
    \cup { [p EXCEPT !.colorScheme = cc.colorScheme, !.customHue = cc.customHue] :
             cc \in { x \in ColorConfigs :
                        x.colorScheme # p.colorScheme \/ x.customHue # p.customHue } }

Intensities == {"subtle", "medium", "strong"}

\* window.innerWidth / innerHeight / devicePixelRatio combinations, by
\* width: every breakpoint of the sizing policy from both sides, short and
\* tall windows.
ViewportSeq ==
    << [innerWidth |-> 479,  innerHeight |-> 4400, devicePixelRatio |-> 1],
       [innerWidth |-> 480,  innerHeight |-> 800,  devicePixelRatio |-> 2],
       [innerWidth |-> 767,  innerHeight |-> 4400, devicePixelRatio |-> 2],
       [innerWidth |-> 768,  innerHeight |-> 4400, devicePixelRatio |-> 1],
       [innerWidth |-> 1023, innerHeight |-> 800,  devicePixelRatio |-> 1],
       [innerWidth |-> 1024, innerHeight |-> 4400, devicePixelRatio |-> 1],
       [innerWidth |-> 1439, innerHeight |-> 4400, devicePixelRatio |-> 2],
       [innerWidth |-> 1440, innerHeight |-> 4400, devicePixelRatio |-> 1],
       [innerWidth |-> 1920, innerHeight |-> 1080, devicePixelRatio |-> 1] >>

Viewports == {ViewportSeq[i] : i \in 1 .. Len(ViewportSeq)}

\* The windows the page is opened in.
InitViewports == {v \in Viewports : v.innerWidth \in {767, 1439}}

\* A small window, where beams leave the screen soonest.
LiveViewports == { [innerWidth |-> 320, innerHeight |-> 100, devicePixelRatio |-> 1] }

\* The props App passes (src/unnamed/part_000).
LiveProps == {p \in InitProps : ~p.interactive}

\* The windows a resize of window w leads to: the neighbouring sizes.
ResizeTargets(w) ==
    LET i == CHOOSE j \in 1 .. Len(ViewportSeq) : ViewportSeq[j] = w
    IN  {ViewportSeq[j] : j \in {i - 1, i + 1} \cap (1 .. Len(ViewportSeq))}

\* Pointer events: clientX, clientY and the canvas rectangle's left/top.
PointerEvents ==
    { [clientX |-> 108, clientY |-> 68, left |-> 8, top |-> 8] }

\* ------------------------------------------------------- sizing policy

\* getBeamCount with the first breakpoint compared by <=.
getBeamCount_Inclusive(width) ==
    IF width <= 480 THEN 8
    ELSE IF width < 768 THEN 12
    ELSE IF width < 1024 THEN 18
    ELSE IF width < 1440 THEN 25
    ELSE 35

getBeamCount(width) ==
    IF width < 480 THEN 8
    ELSE IF width < 768 THEN 12
    ELSE IF width < 1024 THEN 18
    ELSE IF width < 1440 THEN 25
    ELSE 35

getBeamSizing(width) ==
    IF width < 480 THEN [width |-> 40, length |-> 600]
    ELSE IF width < 768 THEN [width |-> 50, length |-> 700]
    ELSE IF width < 1024 THEN [width |-> 60, length |-> 800]
    ELSE IF width < 1440 THEN [width |-> 70, length |-> 900]
    ELSE [width |-> 80, length |-> 1000]

\* ------------------------------------------------------- beams

\* colorScheme === "custom" && customHue ? customHue : scheme.baseHue
BaseHue(colorScheme, customHue) ==
    IF colorScheme = "custom" /\ Truthy(customHue)
    THEN ValueOf(customHue)
    ELSE colorSchemes[colorScheme].baseHue

\* Math.random() calls of one createBeam: angle, the interactive draw (only
\* evaluated when interactive is true), then the twelve of the literal.
createBeamCalls(interactive) == IF interactive THEN 14 ELSE 13

createBeam(s, width, height, interactive, colorScheme, customHue) ==
    LET o == IF interactive THEN 1 ELSE 0
        scheme == colorSchemes[colorScheme]
        baseHue == BaseHue(colorScheme, customHue)
    IN  [ x             |-> (Random(s, 1 + o) * width * 3) \div 2 - width * 250,
          y             |-> (Random(s, 2 + o) * height * 3) \div 2 - height * 250,
          width         |-> 30 * Milli + Random(s, 3 + o) * 60,
          length        |-> height * 2500,
          angle         |-> (-35) * Milli + Random(s, 0) * 10,
          speed         |-> 600 + (Random(s, 4 + o) * 12) \div 10,
          opacity       |-> 120 + (Random(s, 5 + o) * 16) \div 100,
          hue           |-> baseHue * Milli + Random(s, 6 + o) * scheme.hueRange,
          pulse         |-> (Random(s, 7 + o) * 6283) \div Milli,
          pulseSpeed    |-> 20 + (Random(s, 8 + o) * 3) \div 100,
          interactive   |-> interactive /\ Random(s, 1) > 700,
          scale         |-> Milli + Random(s, 9 + o) \div 2,
          rotationSpeed |-> ((Random(s, 10 + o) - 500) * 2) \div 100,
          waveOffset    |-> (Random(s, 11 + o) * 6283) \div Milli,
          waveSpeed     |-> 10 + (Random(s, 12 + o) * 2) \div 100 ]

\* Advance moving the beam down instead of up.
Advance_Downward(beam) ==
    [beam EXCEPT !.y = @ + beam.speed, !.pulse = @ + beam.pulseSpeed]

\* beam.y -= beam.speed; beam.pulse += beam.pulseSpeed
Advance(beam) ==
    [beam EXCEPT !.y = @ - beam.speed, !.pulse = @ + beam.pulseSpeed]

\* A recycle test that forgets the beam's length.
ShouldRecycle_IgnoresLength(beam) == beam.y < (-100) * Milli

\* beam.y + beam.length < -100
ShouldRecycle(beam) == beam.y + beam.length < (-100) * Milli

\* screenSize.width < 768 ? 2 : 3
Columns(screenWidth) == IF screenWidth < 768 THEN 2 ELSE 3

\* canvas.height + 100
ResetY(canvasHeight) == canvasHeight * Milli + 100 * Milli

\* ResetX without the column's offset.
ResetX_NoColumn(column, spacing, r) ==
    spacing \div 2 + ((r - 500) * 2 * (spacing \div 5)) \div Milli

\* column * spacing + spacing / 2 + (Math.random() - 0.5) * spacing * 0.4
ResetX(column, spacing, r) ==
    column * spacing + spacing \div 2 + ((r - 500) * 2 * (spacing \div 5)) \div Milli

\* 190 + (index * 70) / totalBeams
ResetHue(index, totalBeams) == 190 * Milli + (index * 70 * Milli) \div totalBeams

\* 0.4 + Math.random() * 0.3
ResetSpeed(r) == 400 + (r * 3) \div 10

\* Math.random() calls of one resetBeam.
resetBeamCalls == 6

\* resetBeam of the closure c (its screenSize.width), on canvas cv, with the
\* window's current innerWidth, reading the random stream from s.
resetBeam(c, cv, innerWidth, beam, index, totalBeams, s) ==
    LET sizing == getBeamSizing(innerWidth)
        columns == Columns(c.screenWidth)
        column == index % columns
        spacing == (cv.width * Milli) \div columns
    IN  [beam EXCEPT
            !.y = ResetY(cv.height),
            !.x = ResetX(column, spacing, Random(s, 0)),
            !.width = sizing.width * Milli + Random(s, 1) * 40,
            !.speed = ResetSpeed(Random(s, 2)),
            !.hue = ResetHue(index, totalBeams),
            !.opacity = 150 + Random(s, 3) \div 10,
            !.scale = Milli + (Random(s, 4) * 3) \div 10,
            !.rotationSpeed = ((Random(s, 5) - 500) * 15) \div Milli]

\* The integer part of the square root of n, for n below limit * limit.
Isqrt(n, limit) == CHOOSE d \in 0 .. limit : d * d <= n /\ n < (d + 1) * (d + 1)

\* What drawBeam leaves in the beam: the pointer highlight of an interactive
\* beam (scale, opacity).  Distances are taken in whole pixels.
drawBeam(c, beam, pointer) ==
    IF beam.interactive /\ c.interactive
    THEN LET dx == (pointer.x - beam.x) \div Milli
             dy == (pointer.y - beam.y) \div Milli
             maxDistance == IF c.screenWidth < 768 THEN 150 ELSE 200
             near == (IF dx < 0 THEN -dx ELSE dx) < maxDistance
                     /\ (IF dy < 0 THEN -dy ELSE dy) < maxDistance
                     /\ dx * dx + dy * dy < maxDistance * maxDistance
         IN  IF near
             THEN LET distance == Isqrt(dx * dx + dy * dy, maxDistance)
                      influence == Milli - (distance * Milli) \div maxDistance
                  IN  [beam EXCEPT
                          !.scale = Milli + (influence * 4) \div 10,
                          !.opacity = (@ * (Milli + influence \div 5)) \div Milli]
             ELSE beam
    ELSE beam

\* animate dropping the beams that left the screen instead of resetting them.
animateBeams_Drop(c, cv, innerWidth, bs, pointer, s) ==
    LET keep == SelectSeq(bs, LAMBDA b : ~(b.y - b.speed + b.length < (-100) * Milli))
    IN  [ beams    |-> [i \in 1 .. Len(keep) |->
                          [keep[i] EXCEPT !.y = @ - keep[i].speed,
                                          !.pulse = @ + keep[i].pulseSpeed]],
          rng      |-> s,
          recycled |-> {} ]

\* One run of animate's forEach over the beams bs: the beams it leaves, the
\* stream position and the (1-based) positions of the beams it recycled.
animateBeams(c, cv, innerWidth, bs, pointer, s) ==
    LET n == Len(bs)
        adv == [i \in 1 .. n |-> Advance(bs[i])]
        rec == {i \in 1 .. n : ShouldRecycle(adv[i])}
        off(i) == resetBeamCalls * Cardinality({j \in rec : j < i})
    IN  [ beams    |-> [i \in 1 .. n |->
                          drawBeam(c,
                                   IF i \in rec
                                   THEN resetBeam(c, cv, innerWidth, adv[i], i - 1, n, s + off(i))
                                   ELSE adv[i],
                                   pointer)],
          rng      |-> (s + resetBeamCalls * Cardinality(rec)) % RandLen,
          recycled |-> rec ]

\* Math.random() calls per beam of updateCanvasSize.
beamCalls(interactive) == createBeamCalls(interactive) + 2

\* updateCanvasSize of the closure c on window w: the canvas backing size
\* and the fresh beams.
updateCanvasSize(c, w, s) ==
    LET dpr == IF w.devicePixelRatio = 0 THEN 1 ELSE w.devicePixelRatio
        displayWidth == w.innerWidth
        displayHeight == w.innerHeight
        totalBeams == getBeamCount(w.innerWidth)
        sizing == getBeamSizing(w.innerWidth)
        k == beamCalls(c.interactive)
    IN  [ canvas |-> [width |-> displayWidth * dpr, height |-> displayHeight * dpr],
          beams  |-> [i \in 1 .. totalBeams |->
                        LET si == s + (i - 1) * k
                            beam == createBeam(si, displayWidth, displayHeight,
                                               c.interactive, c.colorScheme, c.customHue)
                        IN  [beam EXCEPT
                                !.width = sizing.width * Milli + Random(si, k - 2) * 40,
                                !.length = sizing.length * Milli + Random(si, k - 1) * 200]],
          rng    |-> (s + totalBeams * k) % RandLen ]

\* ------------------------------------------------------- particles

createParticleCalls == 4

createParticle(x, y, hue, s) ==
    [ x       |-> x,
      y       |-> y,
      vx      |-> (Random(s, 0) - 500) * 4,
      vy      |-> (Random(s, 1) - 500) * 4,
      size    |-> Random(s, 2) * 3 + Milli,
      opacity |-> Milli,
      hue     |-> hue,
      life    |-> 0,
      maxLife |-> 60 * Milli + Random(s, 3) * 60 ]

ParticlesPerClick == 10

\* Math.random() calls of one run of the click listener.
clickCalls == 1 + ParticlesPerClick * createParticleCalls

\* The particles one run of the click listener of closure c pushes.
clickParticles(c, pointer, s) ==
    LET scheme == colorSchemes[c.colorScheme]
        hue == BaseHue(c.colorScheme, c.customHue) * Milli + Random(s, 0) * scheme.hueRange
    IN  [i \in 1 .. ParticlesPerClick |->
            createParticle(pointer.x, pointer.y, hue, s + 1 + (i - 1) * createParticleCalls)]

\* ------------------------------------------------------- state

VARIABLES
    props,              \* the props of the current render
    win,                \* window: innerWidth, innerHeight, devicePixelRatio
    phase,              \* "rendered" (effects not yet run), "mounted", "unmounted"
    screenSize,         \* the screenSize state ({width, height})
    setups,             \* the closures of the animation effect's runs, oldest first
    canvas,             \* the canvas element's backing size
    canvasRef,          \* whether canvasRef.current holds the element
    beams,              \* beamsRef.current
    particles,          \* particlesRef.current
    mouse,              \* mouseRef.current
    animationFrameRef,  \* animationFrameRef.current
    pendingFrames,      \* scheduled frame callbacks: request id and owning setup
    nextFrameId,        \* the handle the next requestAnimationFrame returns
    handleResizeOn,     \* whether window holds the handleResize listener
    debounced,          \* per setup: its debounced resize listener has a timer running
    mouseMoveOn,        \* whether window holds the handleMouseMove listener
    clickListeners,     \* the click listeners window holds: the setup of each
    rng,                \* position of Math.random()'s stream
    frameBudget,        \* frame callbacks the browser still runs
    eventBudget,        \* environment events still to come
    lastOp,             \* history: the handler that ran last
    lastRecycled,       \* history: the beams the last step's animate recycled
    lastColumns,        \* history: the column count that animate's resetBeam used
    initWidth,          \* history: innerWidth read by the last updateCanvasSize
    hist                \* history, per beam: its values when created or last recycled

vars == << props, win, phase, screenSize, setups, canvas, canvasRef, beams, particles,
           mouse, animationFrameRef, pendingFrames, nextFrameId, handleResizeOn,
           debounced, mouseMoveOn, clickListeners, rng, frameBudget, eventBudget,
           lastOp, lastRecycled, lastColumns, initWidth, hist >>

\* The closure an effect run captures from its render.
Closure(p, size) ==
    [ interactive |-> p.interactive, colorScheme |-> p.colorScheme,
      customHue |-> p.customHue, intensity |-> p.intensity,
      screenWidth |-> size.width ]

\* History of freshly created beams.
HistInit(bs) ==
    [i \in 1 .. Len(bs) |->
        [ x0 |-> bs[i].x, y0 |-> bs[i].y, width0 |-> bs[i].width, hue0 |-> bs[i].hue,
          pulse0 |-> bs[i].pulse, age |-> 0, travelled |-> 0, recycles |-> 0 ]]

\* History after one animate run that took the beams from before to after.
HistStep(h, before, after, rec) ==
    [i \in 1 .. Len(after) |->
        IF i \in rec
        THEN [ x0 |-> after[i].x, y0 |-> after[i].y, width0 |-> after[i].width,
               hue0 |-> after[i].hue, pulse0 |-> after[i].pulse, age |-> 0,
               travelled |-> 0, recycles |-> h[i].recycles + 1 ]
        ELSE [h[i] EXCEPT !.age = @ + 1, !.travelled = @ + before[i].speed]]

\* A cleanup that cancels nothing.
CancelFrame_Never(pending, ref) == pending

\* cancelAnimationFrame(animationFrameRef.current), when the ref is truthy.
CancelFrame(pending, ref) ==
    IF ref # 0 THEN {f \in pending : f.id # ref} ELSE pending

\* if (interactive) { addEventListener("mousemove"...); addEventListener("click"...) }
RegistersPointer(c) == c.interactive

InitWith(viewports, initProps, frames, events) ==
    /\ props \in initProps
    /\ win \in viewports
    /\ rng \in Seeds
    /\ phase = "rendered"
    /\ screenSize = [width |-> 0, height |-> 0]
    /\ setups = << >>
    /\ canvas = [width |-> 300, height |-> 150]
    /\ canvasRef = TRUE
    /\ beams = << >>
    /\ particles = << >>
    /\ mouse = [x |-> 0, y |-> 0]
    /\ animationFrameRef = 0
    /\ pendingFrames = {}
    /\ nextFrameId = 1
    /\ handleResizeOn = FALSE
    /\ debounced = << >>
    /\ mouseMoveOn = FALSE
    /\ clickListeners = << >>
    /\ frameBudget = frames
    /\ eventBudget = events
    /\ lastOp = "render"
    /\ lastRecycled = {}
    /\ lastColumns = 0
    /\ initWidth = 0
    /\ hist = << >>

Init == InitWith(InitViewports, InitProps, MaxFrames, MaxEvents)

\* One run of the animation effect's setup with closure c, pend being the
\* frame callbacks still scheduled: updateCanvasSize(), the listener
\* registrations, animate().
RunSetup(c, pend) ==
    LET u == updateCanvasSize(c, win, rng)
        a == animateBeams(c, u.canvas, win.innerWidth, u.beams, mouse, u.rng)
        me == Len(setups) + 1
    IN  /\ setups' = Append(setups, c)
        /\ canvas' = u.canvas
        /\ beams' = a.beams
        /\ rng' = a.rng
        /\ debounced' = Append(debounced, FALSE)
        /\ mouseMoveOn' = (mouseMoveOn \/ RegistersPointer(c))
        /\ clickListeners' = IF RegistersPointer(c) THEN Append(clickListeners, me)
                             ELSE clickListeners
        /\ animationFrameRef' = nextFrameId
        /\ pendingFrames' = pend \cup {[id |-> nextFrameId, setup |-> me]}
        /\ nextFrameId' = nextFrameId + 1
        /\ initWidth' = win.innerWidth
        /\ hist' = HistStep(HistInit(u.beams), u.beams, a.beams, a.recycled)
        /\ lastRecycled' = a.recycled
        /\ lastColumns' = Columns(c.screenWidth)

\* The first commit: the screenSize effect (handleResize(), its listener),
\* then the animation effect, whose closure is the first render's, where
\* screenSize is still its initial {0, 0}.
Mount ==
    /\ phase = "rendered"
    /\ phase' = "mounted"
    /\ screenSize' = [width |-> win.innerWidth, height |-> win.innerHeight]
    /\ handleResizeOn' = TRUE
    /\ RunSetup(Closure(props, screenSize), pendingFrames)
    /\ lastOp' = "mount"
    /\ UNCHANGED << props, win, canvasRef, particles, mouse, frameBudget, eventBudget >>

\* A render with another intensity: the animation effect's cleanup (the
\* removeEventListener that names updateCanvasSize, not the registered
\* debounced wrapper, removes nothing; the scheduled frame is cancelled),
\* then its setup with the closure of this render.
ChangeIntensity(v) ==
    /\ phase = "mounted"
    /\ eventBudget > 0
    /\ v # props.intensity
    /\ props' = [props EXCEPT !.intensity = v]
    /\ RunSetup(Closure(props', screenSize), CancelFrame(pendingFrames, animationFrameRef))
    /\ eventBudget' = eventBudget - 1
    /\ lastOp' = "intensity"
    /\ UNCHANGED << win, phase, screenSize, canvasRef, particles, mouse, handleResizeOn,
                    frameBudget >>

\* A render with other interactive / colorScheme / customHue props: no
\* effect depends on them, so none runs.
ChangeProps(p) ==
    /\ phase = "mounted"
    /\ eventBudget > 0
    /\ p.intensity = props.intensity
    /\ p # props
    /\ props' = p
    /\ eventBudget' = eventBudget - 1
    /\ lastOp' = "props"
    /\ lastRecycled' = {}
    /\ UNCHANGED << win, phase, screenSize, setups, canvas, canvasRef, beams, particles,
                    mouse, animationFrameRef, pendingFrames, nextFrameId, handleResizeOn,
                    debounced, mouseMoveOn, clickListeners, rng, frameBudget,
                    lastColumns, initWidth, hist >>

\* The window is resized to v: handleResize (while registered) stores the
\* size in screenSize, and every debounced listener (re)starts its timer.
WindowResize(v) ==
    /\ phase # "rendered"
    /\ eventBudget > 0
    /\ v # win
    /\ win' = v
    /\ screenSize' = IF handleResizeOn
                     THEN [width |-> v.innerWidth, height |-> v.innerHeight]
                     ELSE screenSize
    /\ debounced' = [k \in 1 .. Len(debounced) |-> TRUE]
    /\ eventBudget' = eventBudget - 1
    /\ lastOp' = "resize"
    /\ lastRecycled' = {}
    /\ UNCHANGED << props, phase, setups, canvas, canvasRef, beams, particles, mouse,
                    animationFrameRef, pendingFrames, nextFrameId, handleResizeOn,
                    mouseMoveOn, clickListeners, rng, frameBudget, lastColumns,
                    initWidth, hist >>

\* The oldest running debounce timer expires: updateCanvasSize of its setup.
DebounceFire ==
    /\ \E k \in 1 .. Len(debounced) : debounced[k]
    /\ LET k == CHOOSE j \in 1 .. Len(debounced) :
                    debounced[j] /\ \A i \in 1 .. (j - 1) : ~debounced[i]
           u == updateCanvasSize(setups[k], win, rng)
       IN  /\ debounced' = [debounced EXCEPT ![k] = FALSE]
           /\ canvas' = u.canvas
           /\ beams' = u.beams
           /\ rng' = u.rng
           /\ hist' = HistInit(u.beams)
    /\ initWidth' = win.innerWidth
    /\ lastOp' = "debounce"
    /\ lastRecycled' = {}
    /\ UNCHANGED << props, win, phase, screenSize, setups, canvasRef, particles, mouse,
                    animationFrameRef, pendingFrames, nextFrameId, handleResizeOn,
                    mouseMoveOn, clickListeners, frameBudget, eventBudget, lastColumns >>

\* The browser runs a scheduled frame callback: animate of its setup.
Frame ==
    /\ frameBudget > 0
    /\ \E f \in pendingFrames :
          LET c == setups[f.setup]
              a == animateBeams(c, canvas, win.innerWidth, beams, mouse, rng)
          IN  /\ beams' = a.beams
              /\ rng' = a.rng
              /\ animationFrameRef' = nextFrameId
              /\ pendingFrames' = (pendingFrames \ {f})
                                      \cup {[id |-> nextFrameId, setup |-> f.setup]}
              /\ hist' = HistStep(hist, beams, a.beams, a.recycled)
              /\ lastRecycled' = a.recycled
              /\ lastColumns' = Columns(c.screenWidth)
    /\ nextFrameId' = nextFrameId + 1
    /\ frameBudget' = frameBudget - 1
    /\ lastOp' = "frame"
    /\ UNCHANGED << props, win, phase, screenSize, setups, canvas, canvasRef, particles,
                    mouse, handleResizeOn, debounced, mouseMoveOn, clickListeners,
                    eventBudget, initWidth >>

\* handleMouseMove, while window holds it.
MouseMove(e) ==
    /\ mouseMoveOn
    /\ eventBudget > 0
    /\ mouse' = IF canvasRef
                THEN [x |-> (e.clientX - e.left) * Milli, y |-> (e.clientY - e.top) * Milli]
                ELSE mouse
    /\ eventBudget' = eventBudget - 1
    /\ lastOp' = "mousemove"
    /\ lastRecycled' = {}
    /\ UNCHANGED << props, win, phase, screenSize, setups, canvas, canvasRef, beams,
                    particles, animationFrameRef, pendingFrames, nextFrameId,
                    handleResizeOn, debounced, mouseMoveOn, clickListeners, rng,
                    frameBudget, lastColumns, initWidth, hist >>

\* A click on the window: every click listener it holds runs, in
\* registration order.
Click ==
    /\ phase # "rendered"
    /\ eventBudget > 0
    /\ LET old == Len(particles)
           n == Len(clickListeners)
       IN  /\ particles' =
                 [m \in 1 .. (old + n * ParticlesPerClick) |->
                     IF m <= old THEN particles[m]
                     ELSE LET j == ((m - old - 1) \div ParticlesPerClick) + 1
                              p == ((m - old - 1) % ParticlesPerClick) + 1
                          IN  clickParticles(setups[clickListeners[j]], mouse,
                                             rng + (j - 1) * clickCalls)[p]]
           /\ rng' = (rng + n * clickCalls) % RandLen
    /\ eventBudget' = eventBudget - 1
    /\ lastOp' = "click"
    /\ lastRecycled' = {}
    /\ UNCHANGED << props, win, phase, screenSize, setups, canvas, canvasRef, beams,
                    mouse, animationFrameRef, pendingFrames, nextFrameId, handleResizeOn,
                    debounced, mouseMoveOn, clickListeners, frameBudget, lastColumns,
                    initWidth, hist >>

\* Unmount: both effects' cleanups (handleResize is removed; the animation
\* effect cancels its frame and names a listener that was never registered);
\* React clears canvasRef.
Unmount ==
    /\ phase = "mounted"
    /\ phase' = "unmounted"
    /\ handleResizeOn' = FALSE
    /\ pendingFrames' = CancelFrame(pendingFrames, animationFrameRef)
    /\ canvasRef' = FALSE
    /\ lastOp' = "unmount"
    /\ lastRecycled' = {}
    /\ UNCHANGED << props, win, screenSize, setups, canvas, beams, particles, mouse,
                    animationFrameRef, nextFrameId, debounced, mouseMoveOn,
                    clickListeners, rng, frameBudget, eventBudget, lastColumns,
                    initWidth, hist >>

Next ==
    \/ Mount
    \/ \E v \in Intensities : ChangeIntensity(v)
    \/ \E p \in PropChanges(props) : ChangeProps(p)
    \/ \E v \in ResizeTargets(win) : WindowResize(v)
    \/ DebounceFire
    \/ Frame
    \/ \E e \in PointerEvents : MouseMove(e)
    \/ Click
    \/ Unmount

Spec == Init /\ [][Next]_vars

\* The redraw loop left alone: the component is mounted and the browser
\* keeps running its frame callbacks, with no other event.
LiveInit == InitWith(LiveViewports, LiveProps, LiveMaxFrames, 0)

LiveNext == Mount \/ Frame

LiveSpec == LiveInit /\ [][LiveNext]_vars /\ WF_vars(Mount) /\ WF_vars(Frame)

\* ------------------------------------------------------- claims

\* The sizing table as the specification states it: (count, width, length).
SpecTier(w) ==
    IF w < 480 THEN << 8, 40, 600 >>
    ELSE IF w < 768 THEN << 12, 50, 700 >>
    ELSE IF w < 1024 THEN << 18, 60, 800 >>
    ELSE IF w < 1440 THEN << 25, 70, 900 >>
    ELSE << 35, 80, 1000 >>

\* C1: a click that occurs while the interactive prop is false appends
\* nothing to the particle collection.
C1_NoParticlesWhenNotInteractive ==
    [][(lastOp' = "click" /\ ~props.interactive) => particles' = particles]_vars

\* C2: after unmount no frame callback is scheduled and no later event
\* changes the beams, the particles or the pointer position.
C2_UnmountIsTerminal ==
    /\ [](phase = "unmounted" => pendingFrames = {})
    /\ [][phase = "unmounted" => UNCHANGED << beams, particles, mouse >>]_vars

\* C3: every beam's hue lies in [baseHue, baseHue + hueRange] of the
\* configured scheme, baseHue being customHue for the scheme "custom".
C3_HueWithinScheme ==
    LET baseHue == IF props.colorScheme = "custom" /\ props.customHue # Undefined
                   THEN ValueOf(props.customHue)
                   ELSE colorSchemes[props.colorScheme].baseHue
        hueRange == colorSchemes[props.colorScheme].hueRange
    IN  \A i \in 1 .. Len(beams) :
            /\ baseHue * Milli <= beams[i].hue
            /\ beams[i].hue <= (baseHue + hueRange) * Milli

\* The beam count is the sizing policy's for the width read at the last
\* (re)initialization.
CountMatchesInitWidth ==
    phase # "rendered" => Len(beams) = SpecTier(initWidth)[1]

\* C4 (as stated): the beam count is the policy's for the width of the last
\* (re)initialization and changes only at mount and in a resize-triggered
\* re-initialization.
C4_CountChangesOnlyOnResize ==
    /\ []CountMatchesInitWidth
    /\ [][Len(beams') # Len(beams) => lastOp' \in {"mount", "debounce"}]_vars

\* C4 (amended): the beam count is the policy's for the width of the last
\* (re)initialization and changes only in a (re)initialization: mount, the
\* effect's re-run on an intensity change, or a debounced resize; frames,
\* recycles, pointer moves and clicks never add or remove a beam.
C4_CountChangesOnlyOnReinit ==
    /\ []CountMatchesInitWidth
    /\ [][Len(beams') # Len(beams) => lastOp' \in {"mount", "intensity", "debounce"}]_vars

C4_Witness ==
    /\ lastOp = "frame"
    /\ initWidth # win.innerWidth
    /\ Len(beams) = SpecTier(initWidth)[1]
    /\ Len(beams) # SpecTier(win.innerWidth)[1]

\* C5: for every width the policy returns the tuple of the width's tier,
\* with strict breakpoints at 480, 768, 1024 and 1440, and the beams an
\* initialization creates take their count and their sizing from one tier.
C5_SizingPolicy ==
    LET w == win.innerWidth
        t == << getBeamCount(w), getBeamSizing(w).width, getBeamSizing(w).length >>
        made == SpecTier(initWidth)
    IN  /\ (w < 480) <=> (t = << 8, 40, 600 >>)
        /\ (480 <= w /\ w < 768) <=> (t = << 12, 50, 700 >>)
        /\ (768 <= w /\ w < 1024) <=> (t = << 18, 60, 800 >>)
        /\ (1024 <= w /\ w < 1440) <=> (t = << 25, 70, 900 >>)
        /\ (1440 <= w) <=> (t = << 35, 80, 1000 >>)
        /\ phase # "rendered" =>
              /\ Len(beams) = made[1]
              /\ \A i \in 1 .. Len(beams) :
                    /\ made[3] * Milli <= beams[i].length
                    /\ beams[i].length < (made[3] + 200) * Milli
                    /\ hist[i].recycles = 0 =>
                          /\ made[2] * Milli <= beams[i].width
                          /\ beams[i].width < (made[2] + 40) * Milli

C5_Witness ==
    /\ lastOp = "debounce"
    /\ win.innerWidth = 480
    /\ initWidth = 480
    /\ Len(beams) = 12

\* C6: a beam recycled by the step just taken has y = canvas height + 100
\* and x within the span of column (index mod columns).
C6_RecycledPosition ==
    \A i \in lastRecycled :
        LET column == (i - 1) % lastColumns
        IN  /\ lastColumns \in {2, 3}
            /\ beams[i].y = (canvas.height + 100) * Milli
            /\ column * canvas.width * Milli <= lastColumns * beams[i].x
            /\ lastColumns * beams[i].x <= (column + 1) * canvas.width * Milli

C6_Witness ==
    \E i \in lastRecycled : (i - 1) % lastColumns = 1

\* C7: a beam that went through age frames since it was created or recycled
\* has moved up by the sum of the speeds of those frames, its pulse has
\* grown in each of them, and its x, width and hue are untouched.
C7_AdvanceEffect ==
    \A i \in 1 .. Len(beams) :
        /\ beams[i].y = hist[i].y0 - hist[i].travelled
        /\ beams[i].pulseSpeed > 0
        /\ beams[i].pulse = hist[i].pulse0 + hist[i].age * beams[i].pulseSpeed
        /\ beams[i].x = hist[i].x0
        /\ beams[i].width = hist[i].width0
        /\ beams[i].hue = hist[i].hue0

C7_Witness ==
    /\ lastOp = "frame"
    /\ \E i \in 1 .. Len(beams) : hist[i].age >= 2 /\ hist[i].travelled >= 2 * 600

\* C8: a recycle places the beam in 2 columns when the window is narrower
\* than 768 at that time and in 3 columns otherwise.
C8_ColumnsFollowViewport ==
    lastRecycled # {} => lastColumns = (IF win.innerWidth < 768 THEN 2 ELSE 3)

\* C9: at most one frame callback is scheduled, and it belongs to the
\* effect run that is live (never to one that was cleaned up).
C9_SingleLoop ==
    /\ Cardinality(pendingFrames) <= 1
    /\ \A f \in pendingFrames :
          /\ phase = "mounted"
          /\ f.setup = Len(setups)
          /\ f.id = animationFrameRef

C9_Witness ==
    /\ Len(setups) >= 2
    /\ lastOp = "frame"
    /\ Cardinality(pendingFrames) = 1

\* C10: every beam's speed is positive, a frame recycles exactly the beams
\* whose y + length is below -100 once advanced (a beam at y = -50 with
\* length 900 is not), and, the frames going on with no re-initialization,
\* every beam is recycled and then recycled again.
C10_RecycledAgainAndAgain ==
    /\ [](\A i \in 1 .. Len(beams) : beams[i].speed > 0)
    /\ [](~ShouldRecycle([y |-> (-50) * Milli, length |-> 900 * Milli]))
    /\ [][lastOp' = "frame" =>
            \A i \in 1 .. Len(beams) :
                (i \in lastRecycled')
                    <=> (beams[i].y - beams[i].speed + beams[i].length < (-100) * Milli)]_vars
    /\ (phase = "mounted")
          ~> (\A i \in 1 .. Len(beams) : hist[i].recycles >= 2)

C10_Witness ==
    /\ lastOp = "frame"
    /\ Len(beams) = 8
    /\ \A i \in 1 .. Len(beams) : hist[i].recycles >= 2

====
